---- MODULE Spec2Model ----
(***************************************************************************)
(* GTFS Calendar Explorer: the calendar-resolution core                    *)
(* (utils/calendarService.ts) over a loaded GTFSData snapshot.             *)
(*                                                                         *)
(* Dates.  A JavaScript Date is modelled by its timestamp, counted in      *)
(* milliseconds from local midnight of Friday 2024-07-05, the first day of *)
(* the modelled window.  A GTFS date string is one of the 8-digit strings  *)
(* of DateStrings.  parseGTFSDate and formatGTFSDate convert between the   *)
(* two as date-fns parse/format do: parse yields local midnight of the     *)
(* day, format drops the time of day.                                      *)
(*                                                                         *)
(* References.  A CalendarDayStatus holds a reference to the calendar row  *)
(* it comes from and a TripWithRoute a reference to a route; a reference   *)
(* is modelled by the index of the row in its collection, 0 standing for   *)
(* undefined.  The optional exceptionType is "undefined" when unset.       *)
(*                                                                         *)
(* Around the core: the duplicate-key validator of utils/gtfsParser.ts,    *)
(* and the application itself, App with its FileUpload and DateSelector:   *)
(* the component state, the handlers, and every handleFileChange           *)
(* invocation in flight with the await it is suspended at.  A handler is   *)
(* one step together with the render that follows it; a step of an         *)
(* invocation is the settling of one awaited promise and the code that     *)
(* runs up to the next await.                                              *)
(***************************************************************************)
EXTENDS Integers, Sequences, FiniteSets

VARIABLES
    gtfsData,       \* the loaded GTFSData: calendars, calendarDates, trips,
                    \* routes; as App's state, null while no dataset is loaded
    op,             \* the function or handler that ran last ("none" at first)
    date,           \* the Date argument of a core call (for getAvailableDates,
                    \* what the clock read)
    ret,            \* the value a core call returned
    selectedDate,   \* App: useState<Date | null>
    dayInfo,        \* App: useMemo over [gtfsData, selectedDate]
    availableDates, \* DateSelector: useMemo over [gtfsData]
    currentMonth,   \* DateSelector: useState(() => startOfMonth(...)), null
                    \* while DateSelector is not mounted
    isLoading,      \* FileUpload: useState(false)
    error,          \* FileUpload: useState<string | null>
    fileName,       \* FileUpload: useState<string | null>
    fileList,       \* FileUpload: useState<string[]>
    loads           \* the handleFileChange invocations in flight

appVars ==
    <<selectedDate, dayInfo, availableDates, currentMonth, isLoading, error, fileName,
      fileList, loads>>

vars == <<gtfsData, op, date, ret, appVars>>

\* ---------------------------------------------------------------- bounds

\* Days of the modelled window: day 1 is Friday 2024-07-05.
MaxDay == 2
\* Longest calendars collection.
MaxCalendars == 2
\* Longest calendarDates collection.
MaxCalendarDates == 2
\* Longest trips collection.
MaxTrips == 2
\* Longest routes collection.
MaxRoutes == 2
\* Longest collection handed to the validator.
MaxRows == 4

\* ----------------------------------------------------------------- dates

MsPerDay == 24 * 60 * 60 * 1000
Noon == 12 * 60 * 60 * 1000

\* The yyyyMMdd strings of the days of the window, in order.
DateStrings ==
    <<"20240705", "20240706", "20240707", "20240708",
      "20240709", "20240710", "20240711">>

Days == 1..MaxDay

\* Date values handed to the core: any time of a day of the window; the
\* application's date picker produces the midnight ones.
Dates == { (d - 1) * MsPerDay + tod : d \in Days, tod \in {0, Noon} }

\* parse(dateString, 'yyyyMMdd', new Date()): local midnight of that day.
parseGTFSDate(dateString) ==
    LET d == CHOOSE k \in 1..Len(DateStrings) : DateStrings[k] = dateString
    IN  (d - 1) * MsPerDay

\* format(date, 'yyyyMMdd'): the day the timestamp falls on.
formatGTFSDate(d) == DateStrings[(d \div MsPerDay) + 1]

\* date-fns getDay: 0 = Sunday ... 6 = Saturday; day 1 of the window is a Friday.
getDay(d) == (5 + (d \div MsPerDay)) % 7

dayOfWeekKeys ==
    <<"sunday", "monday", "tuesday", "wednesday", "thursday", "friday", "saturday">>

isCalendarActiveOnDayOfWeek(calendar, d) ==
    LET dayOfWeek == getDay(d)
        dayKey == dayOfWeekKeys[dayOfWeek + 1]
    IN  calendar[dayKey]

\* date-fns (v3 and later) isWithinInterval: the two ends are put in ascending
\* order before the comparison, so an interval given end-first is the same
\* interval; the comparison is on timestamps and inclusive at both ends.
isWithinInterval(d, start, end) ==
    LET startTime == IF start <= end THEN start ELSE end
        endTime == IF start <= end THEN end ELSE start
    IN  d >= startTime /\ d <= endTime

isDateInCalendarRange(calendar, d) ==
    LET startDate == parseGTFSDate(calendar.start_date)
        endDate == parseGTFSDate(calendar.end_date)
    IN  isWithinInterval(d, startDate, endDate)

\* const baseActive = isInRange && isActiveDay
baseActive(calendar, d) ==
    isDateInCalendarRange(calendar, d) /\ isCalendarActiveOnDayOfWeek(calendar, d)

\* ------------------------------------------------- getCalendarStatusForDate

\* The JavaScript null.
null == << >>

None == <<>>

\* Variant: the last matching row wins (findLast).
FindException_Last(calendarDates, service_id, dateString) ==
    LET matching == { j \in 1..Len(calendarDates) :
                        /\ calendarDates[j].service_id = service_id
                        /\ calendarDates[j].date = dateString }
    IN  IF matching = {} THEN 0
        ELSE CHOOSE j \in matching : \A k \in matching : k <= j

\* gtfsData.calendarDates.find(cd => cd.service_id === service_id &&
\* cd.date === dateString): the index of the first matching row, 0 for undefined.
FindException(calendarDates, service_id, dateString) ==
    LET matching == { j \in 1..Len(calendarDates) :
                        /\ calendarDates[j].service_id = service_id
                        /\ calendarDates[j].date = dateString }
    IN  IF matching = {} THEN 0
        ELSE CHOOSE j \in matching : \A k \in matching : j <= k

\* A CalendarDayStatus object literal.
CalendarDayStatus(service_id, isActive, isException, exceptionType, calendar) ==
    [service_id |-> service_id,
     isActive |-> isActive,
     isException |-> isException,
     exceptionType |-> exceptionType,
     calendar |-> calendar]

\* What one loop iteration pushes: active.push(s), excluded.push(s), nothing.
PushActive(s) == [active |-> <<s>>, excluded |-> None]
PushExcluded(s) == [active |-> None, excluded |-> <<s>>]
PushNothing == [active |-> None, excluded |-> None]

\* Variant: the regular branch forgets the day-of-week flag.
CalendarRowStatus_RangeOnly(data, d, i) ==
    LET calendar == data.calendars[i]
        exception == FindException(data.calendarDates, calendar.service_id,
                                   formatGTFSDate(d))
    IN  IF exception # 0
        THEN IF data.calendarDates[exception].exception_type = 1
             THEN PushActive(CalendarDayStatus(calendar.service_id, TRUE, TRUE, "added", i))
             ELSE IF data.calendarDates[exception].exception_type = 2
                     /\ baseActive(calendar, d)
             THEN PushExcluded(CalendarDayStatus(calendar.service_id, FALSE, TRUE, "removed", i))
             ELSE PushNothing
        ELSE IF isDateInCalendarRange(calendar, d)
        THEN PushActive(CalendarDayStatus(calendar.service_id, TRUE, FALSE, "undefined", i))
        ELSE PushNothing

\* Variant: an added exception only counts on a day the base rule covers.
CalendarRowStatus_AddedNeedsBase(data, d, i) ==
    LET calendar == data.calendars[i]
        exception == FindException(data.calendarDates, calendar.service_id,
                                   formatGTFSDate(d))
    IN  IF exception # 0
        THEN IF data.calendarDates[exception].exception_type = 1
             THEN IF baseActive(calendar, d)
                  THEN PushActive(CalendarDayStatus(calendar.service_id, TRUE, TRUE, "added", i))
                  ELSE PushNothing
             ELSE IF data.calendarDates[exception].exception_type = 2
                     /\ baseActive(calendar, d)
             THEN PushExcluded(CalendarDayStatus(calendar.service_id, FALSE, TRUE, "removed", i))
             ELSE PushNothing
        ELSE IF baseActive(calendar, d)
        THEN PushActive(CalendarDayStatus(calendar.service_id, TRUE, FALSE, "undefined", i))
        ELSE PushNothing

\* Variant: a removed exception excludes the row whatever the base rule says.
CalendarRowStatus_RemovedAlways(data, d, i) ==
    LET calendar == data.calendars[i]
        exception == FindException(data.calendarDates, calendar.service_id,
                                   formatGTFSDate(d))
    IN  IF exception # 0
        THEN IF data.calendarDates[exception].exception_type = 1
             THEN PushActive(CalendarDayStatus(calendar.service_id, TRUE, TRUE, "added", i))
             ELSE IF data.calendarDates[exception].exception_type = 2
             THEN PushExcluded(CalendarDayStatus(calendar.service_id, FALSE, TRUE, "removed", i))
             ELSE PushNothing
        ELSE IF baseActive(calendar, d)
        THEN PushActive(CalendarDayStatus(calendar.service_id, TRUE, FALSE, "undefined", i))
        ELSE PushNothing

\* The body of the loop over gtfsData.calendars for row i: what the row pushes
\* to active and to excluded.
\* Variant: a removed base-active row is excluded and stays listed as active.
CalendarRowStatus_RemovedKept(data, d, i) ==
    LET calendar == data.calendars[i]
        exception == FindException(data.calendarDates, calendar.service_id,
                                   formatGTFSDate(d))
    IN  IF exception # 0
        THEN IF data.calendarDates[exception].exception_type = 1
             THEN PushActive(CalendarDayStatus(calendar.service_id, TRUE, TRUE, "added", i))
             ELSE IF data.calendarDates[exception].exception_type = 2
                     /\ baseActive(calendar, d)
             THEN [active |-> << CalendarDayStatus(calendar.service_id, TRUE, FALSE,
                                                   "undefined", i) >>,
                   excluded |-> << CalendarDayStatus(calendar.service_id, FALSE, TRUE,
                                                     "removed", i) >>]
             ELSE PushNothing
        ELSE IF baseActive(calendar, d)
        THEN PushActive(CalendarDayStatus(calendar.service_id, TRUE, FALSE, "undefined", i))
        ELSE PushNothing

\* Variant: an excluded entry does not say which exception excluded it.
CalendarRowStatus_RemovedUntyped(data, d, i) ==
    LET calendar == data.calendars[i]
        exception == FindException(data.calendarDates, calendar.service_id,
                                   formatGTFSDate(d))
    IN  IF exception # 0
        THEN IF data.calendarDates[exception].exception_type = 1
             THEN PushActive(CalendarDayStatus(calendar.service_id, TRUE, TRUE, "added", i))
             ELSE IF data.calendarDates[exception].exception_type = 2
                     /\ baseActive(calendar, d)
             THEN PushExcluded(CalendarDayStatus(calendar.service_id, FALSE, TRUE,
                                                 "undefined", i))
             ELSE PushNothing
        ELSE IF baseActive(calendar, d)
        THEN PushActive(CalendarDayStatus(calendar.service_id, TRUE, FALSE, "undefined", i))
        ELSE PushNothing

\* Variant: an exception of unknown type is taken for no exception at all.
CalendarRowStatus_UnknownIgnored(data, d, i) ==
    LET calendar == data.calendars[i]
        dateString == formatGTFSDate(d)
        exception == FindException(data.calendarDates, calendar.service_id, dateString)
        type == IF exception # 0 THEN data.calendarDates[exception].exception_type ELSE 0
    IN  IF type = 1
        THEN PushActive(CalendarDayStatus(calendar.service_id, TRUE, TRUE, "added", i))
        ELSE IF type = 2
        THEN IF baseActive(calendar, d)
             THEN PushExcluded(CalendarDayStatus(calendar.service_id, FALSE, TRUE, "removed", i))
             ELSE PushNothing
        ELSE IF baseActive(calendar, d)
        THEN PushActive(CalendarDayStatus(calendar.service_id, TRUE, FALSE, "undefined", i))
        ELSE PushNothing

CalendarRowStatus(data, d, i) ==
    LET calendar == data.calendars[i]
        dateString == formatGTFSDate(d)
        exception == FindException(data.calendarDates, calendar.service_id, dateString)
    IN  IF exception # 0
        THEN IF data.calendarDates[exception].exception_type = 1
             THEN PushActive(CalendarDayStatus(calendar.service_id, TRUE, TRUE, "added", i))
             ELSE IF data.calendarDates[exception].exception_type = 2
             THEN IF baseActive(calendar, d)
                  THEN PushExcluded(CalendarDayStatus(calendar.service_id, FALSE, TRUE, "removed", i))
                  ELSE PushNothing
             ELSE PushNothing
        ELSE IF baseActive(calendar, d)
        THEN PushActive(CalendarDayStatus(calendar.service_id, TRUE, FALSE, "undefined", i))
        ELSE PushNothing

\* Variant: rows are keyed by service_id, a later row with a known id is skipped.
RECURSIVE CalendarLoop_Keyed(_, _, _)
CalendarLoop_Keyed(data, d, i) ==
    IF i > Len(data.calendars)
    THEN PushNothing
    ELSE LET seen == \E h \in 1..(i - 1) :
                        data.calendars[h].service_id = data.calendars[i].service_id
             row == IF seen THEN PushNothing ELSE CalendarRowStatus(data, d, i)
             rest == CalendarLoop_Keyed(data, d, i + 1)
         IN  [active |-> row.active \o rest.active,
              excluded |-> row.excluded \o rest.excluded]

\* for (const calendar of gtfsData.calendars): rows i..end, appended in order.
RECURSIVE CalendarLoop(_, _, _)
CalendarLoop(data, d, i) ==
    IF i > Len(data.calendars)
    THEN PushNothing
    ELSE LET row == CalendarRowStatus(data, d, i)
             rest == CalendarLoop(data, d, i + 1)
         IN  [active |-> row.active \o rest.active,
              excluded |-> row.excluded \o rest.excluded]

\* new Set(gtfsData.calendars.map(c => c.service_id))
calendarServiceIds(data) ==
    { data.calendars[i].service_id : i \in 1..Len(data.calendars) }

\* Variant: the exception pass does not skip services of calendar.txt.
ExceptionOnlyStatus_NoSkip(data, dateString, j) ==
    LET calendarDate == data.calendarDates[j]
    IN  IF calendarDate.date # dateString THEN None
        ELSE IF calendarDate.exception_type = 1
        THEN << CalendarDayStatus(calendarDate.service_id, TRUE, TRUE, "added", 0) >>
        ELSE None

\* The body of the loop over gtfsData.calendarDates for row j: what the row
\* pushes to active (services defined only by exceptions).
ExceptionOnlyStatus(data, dateString, j) ==
    LET calendarDate == data.calendarDates[j]
    IN  IF calendarDate.date # dateString THEN None
        ELSE IF calendarDate.service_id \in calendarServiceIds(data) THEN None
        ELSE IF calendarDate.exception_type = 1
        THEN << CalendarDayStatus(calendarDate.service_id, TRUE, TRUE, "added", 0) >>
        ELSE None

\* for (const calendarDate of gtfsData.calendarDates): rows j..end, in order.
RECURSIVE ExceptionLoop(_, _, _)
ExceptionLoop(data, dateString, j) ==
    IF j > Len(data.calendarDates) THEN None
    ELSE ExceptionOnlyStatus(data, dateString, j)
            \o ExceptionLoop(data, dateString, j + 1)

getCalendarStatusForDate(data, d) ==
    LET dateString == formatGTFSDate(d)
        fromCalendars == CalendarLoop(data, d, 1)
    IN  [active |-> fromCalendars.active \o ExceptionLoop(data, dateString, 1),
         excluded |-> fromCalendars.excluded]

\* new Set(active.map(c => c.service_id))
getActiveServiceIds(data, d) ==
    LET active == getCalendarStatusForDate(data, d).active
    IN  { active[k].service_id : k \in 1..Len(active) }

\* ----------------------------------------------------------- getTripsForDate

\* Variant: the lookup ignores the key and hands out the first route.
routeMapGet_AnyRoute(routes, route_id) ==
    IF Len(routes) = 0 THEN 0 ELSE 1

\* new Map(gtfsData.routes.map(r => [r.route_id, r])).get(route_id): a later
\* row with the same key replaces an earlier one; 0 for undefined.
routeMapGet(routes, route_id) ==
    LET matching == { k \in 1..Len(routes) : routes[k].route_id = route_id }
    IN  IF matching = {} THEN 0
        ELSE CHOOSE k \in matching : \A m \in matching : m <= k

\* gtfsData.trips.filter(...).map(trip => ({...trip, route})): trips k..end.
RECURSIVE TripsLoop(_, _, _)
TripsLoop(data, activeServiceIds, k) ==
    IF k > Len(data.trips) THEN None
    ELSE LET trip == data.trips[k]
             rest == TripsLoop(data, activeServiceIds, k + 1)
         IN  IF trip.service_id \in activeServiceIds
             THEN << [route_id |-> trip.route_id,
                      service_id |-> trip.service_id,
                      trip_id |-> trip.trip_id,
                      route |-> routeMapGet(data.routes, trip.route_id)] >> \o rest
             ELSE rest

\* Variant: trips are filtered by the base rule, exceptions left out.
getTripsForDate_BaseOnly(data, d) ==
    TripsLoop(data,
              { data.calendars[i].service_id :
                  i \in { h \in 1..Len(data.calendars) : baseActive(data.calendars[h], d) } },
              1)

getTripsForDate(data, d) ==
    TripsLoop(data, getActiveServiceIds(data, d), 1)

\* --------------------------------------------------- getBaseCalendarsForDate

RECURSIVE BaseLoop(_, _, _)
BaseLoop(data, d, i) ==
    IF i > Len(data.calendars) THEN None
    ELSE LET calendar == data.calendars[i]
             isInRange == isDateInCalendarRange(calendar, d)
             isActiveDay == isCalendarActiveOnDayOfWeek(calendar, d)
             rest == BaseLoop(data, d, i + 1)
         IN  IF isInRange /\ isActiveDay
             THEN << CalendarDayStatus(calendar.service_id, TRUE, FALSE, "undefined", i) >>
                    \o rest
             ELSE rest

\* Variant: a row carrying a removed exception for the date is left out.
getBaseCalendarsForDate_Overlaid(data, d) ==
    LET Kept(s) ==
            LET exception == FindException(data.calendarDates, s.service_id,
                                           formatGTFSDate(d))
            IN  exception = 0 \/ data.calendarDates[exception].exception_type # 2
    IN  SelectSeq(BaseLoop(data, d, 1), Kept)

getBaseCalendarsForDate(data, d) == BaseLoop(data, d, 1)

\* ---------------------------------------------------------------- getDayInfo

getDayInfo(data, d) ==
    LET status == getCalendarStatusForDate(data, d)
        baseCalendars == getBaseCalendarsForDate(data, d)
        activeTrips == getTripsForDate(data, d)
    IN  [date |-> d,
         dateString |-> formatGTFSDate(d),
         baseCalendars |-> baseCalendars,
         activeCalendars |-> status.active,
         excludedCalendars |-> status.excluded,
         activeTrips |-> activeTrips]

\* -------------------------------------------------------------- getDateRange

\* minDate and maxDate after one more (lo, hi) pair; the two are null
\* together, before the first pair:
\*   if (!minDate || lo < minDate) minDate = lo;
\*   if (!maxDate || hi > maxDate) maxDate = hi;
WidenRange(range, lo, hi) ==
    IF range = null THEN [start |-> lo, end |-> hi]
    ELSE [start |-> IF lo < range.start THEN lo ELSE range.start,
          end |-> IF hi > range.end THEN hi ELSE range.end]

\* for (const calendar of gtfsData.calendars): rows i..end.
RECURSIVE CalendarRangeLoop(_, _, _)
CalendarRangeLoop(data, range, i) ==
    IF i > Len(data.calendars) THEN range
    ELSE LET startDate == parseGTFSDate(data.calendars[i].start_date)
             endDate == parseGTFSDate(data.calendars[i].end_date)
         IN  CalendarRangeLoop(data, WidenRange(range, startDate, endDate), i + 1)

\* for (const calendarDate of gtfsData.calendarDates): rows j..end.
RECURSIVE ExceptionRangeLoop(_, _, _)
ExceptionRangeLoop(data, range, j) ==
    IF j > Len(data.calendarDates) THEN range
    ELSE LET d == parseGTFSDate(data.calendarDates[j].date)
         IN  ExceptionRangeLoop(data, WidenRange(range, d, d), j + 1)

getDateRange(data) ==
    IF Len(data.calendars) = 0 /\ Len(data.calendarDates) = 0 THEN null
    ELSE ExceptionRangeLoop(data, CalendarRangeLoop(data, null, 1), 1)

\* --------------------------------------------------------- getAvailableDates

\* today.setHours(0, 0, 0, 0): local midnight of the day of the clock reading.
startOfDay(d) == d - (d % MsPerDay)

\* date-fns eachDayOfInterval: local midnight of every day from the day of
\* start to the last day that begins at or before end; an interval given
\* end-first yields the same days in descending order (date-fns 3 and later).
eachDayOfInterval(start, end) ==
    LET lo == IF start > end THEN end ELSE start
        hi == IF start > end THEN start ELSE end
        n == ((hi - startOfDay(lo)) \div MsPerDay) + 1
    IN  [ k \in 1..n |->
            IF start > end THEN startOfDay(lo) + (n - k) * MsPerDay
            ELSE startOfDay(lo) + (k - 1) * MsPerDay ]

\* Variant: the list starts at the start of the range whatever today is.
getAvailableDates_FromRangeStart(data, now) ==
    LET range == getDateRange(data)
    IN  IF range = null THEN << >>
        ELSE IF range.start > range.end THEN << >>
        ELSE eachDayOfInterval(range.start, range.end)

\* getAvailableDates, now being what new Date() reads from the clock.
getAvailableDates(data, now) ==
    LET range == getDateRange(data)
        today == startOfDay(now)
    IN  IF range = null THEN << >>
        ELSE LET startDate == IF today > range.start THEN today ELSE range.start
             IN  IF startDate > range.end THEN << >>
                 ELSE eachDayOfInterval(startDate, range.end)

\* ----------------------------------------------------------- getServiceStats

getServiceStats(data) ==
    [totalCalendars |-> Len(data.calendars),
     totalExceptions |-> Len(data.calendarDates),
     totalTrips |-> Len(data.trips),
     totalRoutes |-> Len(data.routes),
     uniqueServiceIds |->
        Cardinality({ data.calendars[i].service_id : i \in 1..Len(data.calendars) }
                    \cup { data.calendarDates[j].service_id :
                             j \in 1..Len(data.calendarDates) })]

\* ---------------------------------------------------------- validateGTFSData

\* Variant: a value is reported each time it is met again.
findDuplicates_OnRepeat(arr) ==
    LET RECURSIVE Repeats(_)
        Repeats(i) ==
            IF i > Len(arr) THEN << >>
            ELSE IF \E j \in 1..(i - 1) : arr[j] = arr[i]
                 THEN << arr[i] >> \o Repeats(i + 1)
                 ELSE Repeats(i + 1)
    IN  Repeats(1)

\* The keys of the Map `seen` in iteration order: a Map iterates its keys in
\* the order of their first insertion, a later set() of a known key keeps
\* the key's place.
SeenKeys(arr) ==
    LET RECURSIVE Insert(_)
        Insert(i) ==
            IF i > Len(arr) THEN << >>
            ELSE IF \E j \in 1..(i - 1) : arr[j] = arr[i]
                 THEN Insert(i + 1)
                 ELSE << arr[i] >> \o Insert(i + 1)
    IN  Insert(1)

\* seen.get(item) once the first loop is over.
SeenCount(arr, item) == Cardinality({ i \in 1..Len(arr) : arr[i] = item })

findDuplicates(arr) ==
    LET MoreThanOnce(item) == SeenCount(arr, item) > 1
    IN  SelectSeq(SeenKeys(arr), MoreThanOnce)

\* `${cd.service_id}|${cd.date}`
calendarDateKey(cd) == cd.service_id \o "|" \o cd.date

\* The strings free of '|' that keys are made of.
KeyParts == {"WD", "WE", "HOLIDAY"} \cup { DateStrings[k] : k \in Days }

RECURSIVE JoinParts(_)
JoinParts(parts) ==
    IF Len(parts) = 1 THEN parts[1]
    ELSE parts[1] \o "|" \o JoinParts(Tail(parts))

\* key.split('|'): the pieces between the '|' characters of key.
split(key) ==
    CHOOSE parts \in [1..2 -> KeyParts] \cup [1..3 -> KeyParts] :
        JoinParts(parts) = key

\* const [serviceId, date] = key.split('|');
\* return `service_id="${serviceId}", date="${date}"`
duplicateLabel(key) ==
    LET parts == split(key)
    IN  "service_id=\"" \o parts[1] \o "\", date=\"" \o parts[2] \o "\""

ValidationIssue(file, field, duplicates) ==
    [type |-> "error", file |-> file, field |-> field, duplicates |-> duplicates]

\* Variant: the calendar.txt check is pushed before the trips.txt check.
validateGTFSData_CalendarFirst(data) ==
    LET tripIds == [ i \in 1..Len(data.trips) |-> data.trips[i].trip_id ]
        serviceIds ==
            [ i \in 1..Len(data.calendars) |-> data.calendars[i].service_id ]
        calendarDateKeys ==
            [ i \in 1..Len(data.calendarDates) |-> calendarDateKey(data.calendarDates[i]) ]
        duplicateTripIds == findDuplicates(tripIds)
        duplicateCalendarServiceIds == findDuplicates(serviceIds)
        duplicateCalendarDateKeys == findDuplicates(calendarDateKeys)
        issues ==
            (IF Len(duplicateCalendarServiceIds) > 0
             THEN << ValidationIssue("calendar.txt", "service_id",
                                     duplicateCalendarServiceIds) >>
             ELSE << >>)
            \o (IF Len(duplicateTripIds) > 0
                THEN << ValidationIssue("trips.txt", "trip_id", duplicateTripIds) >>
                ELSE << >>)
            \o (IF Len(duplicateCalendarDateKeys) > 0
                THEN << ValidationIssue("calendar_dates.txt", "service_id + date",
                                        [ i \in 1..Len(duplicateCalendarDateKeys) |->
                                            duplicateLabel(duplicateCalendarDateKeys[i]) ]) >>
                ELSE << >>)
    IN  [isValid |-> Len(issues) = 0,
         issues |-> issues,
         stats |-> [tripsChecked |-> Len(data.trips),
                    calendarsChecked |-> Len(data.calendars),
                    calendarDatesChecked |-> Len(data.calendarDates)]]

validateGTFSData(data) ==
    LET tripIds == [ i \in 1..Len(data.trips) |-> data.trips[i].trip_id ]
        serviceIds ==
            [ i \in 1..Len(data.calendars) |-> data.calendars[i].service_id ]
        calendarDateKeys ==
            [ i \in 1..Len(data.calendarDates) |-> calendarDateKey(data.calendarDates[i]) ]
        duplicateTripIds == findDuplicates(tripIds)
        duplicateCalendarServiceIds == findDuplicates(serviceIds)
        duplicateCalendarDateKeys == findDuplicates(calendarDateKeys)
        issues ==
            (IF Len(duplicateTripIds) > 0
             THEN << ValidationIssue("trips.txt", "trip_id", duplicateTripIds) >>
             ELSE << >>)
            \o (IF Len(duplicateCalendarServiceIds) > 0
                THEN << ValidationIssue("calendar.txt", "service_id",
                                        duplicateCalendarServiceIds) >>
                ELSE << >>)
            \o (IF Len(duplicateCalendarDateKeys) > 0
                THEN << ValidationIssue("calendar_dates.txt", "service_id + date",
                                        [ i \in 1..Len(duplicateCalendarDateKeys) |->
                                            duplicateLabel(duplicateCalendarDateKeys[i]) ]) >>
                ELSE << >>)
    IN  [isValid |-> Len(issues) = 0,
         issues |-> issues,
         stats |-> [tripsChecked |-> Len(data.trips),
                    calendarsChecked |-> Len(data.calendars),
                    calendarDatesChecked |-> Len(data.calendarDates)]]

\* -------------------------------------------------------- parseCalendarDates

\* What parseInt yields for text that does not start with a number.  The
\* model keeps exception_type an integer; NaN is the integer that stands
\* for the value equal to no number.
NaN == 0 - 1

\* parseInt(text, 10) on the texts of ExceptionTypeTexts: the digits up to
\* the first other character are read, and text without a leading number
\* gives NaN.
parseInt(text) ==
    CASE text = "1" -> 1
      [] text = "2" -> 2
      [] text = "2.0" -> 2
      [] text = "3" -> 3
      [] text = "" -> NaN
      [] text = "added" -> NaN

\* raw.map(row => ({ service_id: row.service_id, date: row.date,
\*                   exception_type: parseInt(row.exception_type, 10) }))
parseCalendarDates(raw) ==
    [ j \in 1..Len(raw) |->
        [service_id |-> raw[j].service_id,
         date |-> raw[j].date,
         exception_type |-> parseInt(raw[j].exception_type)] ]

\* ------------------------------------------------------------------ inputs

\* Weekly patterns of calendar.txt rows: Monday-Friday and Saturday-Sunday.
WeekdayFlags ==
    [monday |-> TRUE, tuesday |-> TRUE, wednesday |-> TRUE, thursday |-> TRUE,
     friday |-> TRUE, saturday |-> FALSE, sunday |-> FALSE]
WeekendFlags ==
    [monday |-> FALSE, tuesday |-> FALSE, wednesday |-> FALSE, thursday |-> FALSE,
     friday |-> FALSE, saturday |-> TRUE, sunday |-> TRUE]

Calendar(id, flags, start, end) ==
    [service_id |-> id,
     monday |-> flags.monday, tuesday |-> flags.tuesday,
     wednesday |-> flags.wednesday, thursday |-> flags.thursday,
     friday |-> flags.friday, saturday |-> flags.saturday, sunday |-> flags.sunday,
     start_date |-> DateStrings[start], end_date |-> DateStrings[end]]

\* calendar.txt rows: start_date and end_date are any two days of the window;
\* nothing at load time orders them.
CalendarRows ==
    { Calendar(id, flags, s, e) :
        id \in {"WD", "WE"}, flags \in {WeekdayFlags, WeekendFlags},
        s \in Days, e \in Days }

\* calendar_dates.txt rows; "HOLIDAY" is in no calendar.txt row.
CalendarDateRows ==
    [service_id : {"WD", "HOLIDAY"},
     date : { DateStrings[k] : k \in Days },
     exception_type : {1, 2}]

TripRows ==
    [route_id : {"R1", "R2"}, service_id : {"WD", "WE", "HOLIDAY"},
     trip_id : {"T1", "T2"}]

\* routes.txt rows; no row has route_id "R2", so a trip on R2 has no route.
RouteRows == [route_id : {"R1"}, route_short_name : {"1", "2"}]

SeqsUpTo(S, n) == UNION { [1..m -> S] : m \in 0..n }

\* The exception_type column of calendar_dates.txt as text, well-formed or not.
ExceptionTypeTexts == {"1", "2", "2.0", "3", "", "added"}

\* Rows of calendar_dates.txt as parseCSV hands them over: every field a string.
RawCalendarDateRows ==
    [service_id : {"WD", "HOLIDAY"},
     date : { DateStrings[k] : k \in Days },
     exception_type : ExceptionTypeTexts]

\* ------------------------------------------------------------------- state

\* A value that is a Date or a string when it is not null is held boxed, so
\* that the two cases compare.
Boxed(v) == << v >>

\* The handleFileChange invocations in flight are numbered; NoLoad marks a
\* number no invocation holds.
MaxLoads == 2
NoLoad == [pc |-> "none"]

\* The state of App, DateSelector and FileUpload when they mount; the
\* specifications of the core alone leave it there.
InitApp ==
    /\ selectedDate = null
    /\ dayInfo = null
    /\ availableDates = << >>
    /\ currentMonth = null
    /\ isLoading = FALSE
    /\ error = null
    /\ fileName = null
    /\ fileList = << >>
    /\ loads = [ n \in 1..MaxLoads |-> NoLoad ]

\* ----------------------------------------------------------- specification

\* Calendars and exceptions of every shape; one trip on one route.
Init ==
    /\ \E calendars \in SeqsUpTo(CalendarRows, MaxCalendars),
          calendarDates \in SeqsUpTo(CalendarDateRows, MaxCalendarDates) :
            gtfsData = [calendars |-> calendars,
                        calendarDates |-> calendarDates,
                        trips |-> << [route_id |-> "R1", service_id |-> "WD",
                                      trip_id |-> "T1"] >>,
                        routes |-> << [route_id |-> "R1",
                                       route_short_name |-> "1"] >>]
    /\ op = "none"
    /\ date = 0
    /\ ret = None
    /\ InitApp

GetCalendarStatusForDate ==
    \E d \in Dates :
        /\ op' = "getCalendarStatusForDate"
        /\ date' = d
        /\ ret' = getCalendarStatusForDate(gtfsData, d)
        /\ UNCHANGED <<gtfsData, appVars>>

GetBaseCalendarsForDate ==
    \E d \in Dates :
        /\ op' = "getBaseCalendarsForDate"
        /\ date' = d
        /\ ret' = getBaseCalendarsForDate(gtfsData, d)
        /\ UNCHANGED <<gtfsData, appVars>>

\* Variant: the route is attached to the trips of the dataset themselves
\* (trip.route = ...) instead of to copies.
GetTripsForDate_InPlace ==
    \E d \in Dates :
        /\ op' = "getTripsForDate"
        /\ date' = d
        /\ ret' = getTripsForDate(gtfsData, d)
        /\ gtfsData' =
              [gtfsData EXCEPT !.trips =
                  [ k \in 1..Len(gtfsData.trips) |->
                      IF gtfsData.trips[k].service_id \in getActiveServiceIds(gtfsData, d)
                      THEN [route_id |-> gtfsData.trips[k].route_id,
                            service_id |-> gtfsData.trips[k].service_id,
                            trip_id |-> gtfsData.trips[k].trip_id,
                            route |-> routeMapGet(gtfsData.routes,
                                                  gtfsData.trips[k].route_id)]
                      ELSE gtfsData.trips[k] ]]
        /\ UNCHANGED appVars

GetTripsForDate ==
    \E d \in Dates :
        /\ op' = "getTripsForDate"
        /\ date' = d
        /\ ret' = getTripsForDate(gtfsData, d)
        /\ UNCHANGED <<gtfsData, appVars>>

Next ==
    \/ GetCalendarStatusForDate
    \/ GetBaseCalendarsForDate
    \/ GetTripsForDate

Spec == Init /\ [][Next]_vars

\* Trips and routes of every shape over calendar rows that span the window
\* and at most one exception.
InitTrips ==
    /\ \E calendars \in SeqsUpTo({ c \in CalendarRows :
                                     /\ c.start_date = DateStrings[1]
                                     /\ c.end_date = DateStrings[MaxDay] },
                                  MaxCalendars),
          calendarDates \in SeqsUpTo(CalendarDateRows, 1),
          trips \in SeqsUpTo(TripRows, MaxTrips),
          routes \in SeqsUpTo(RouteRows, MaxRoutes) :
            gtfsData = [calendars |-> calendars,
                        calendarDates |-> calendarDates,
                        trips |-> trips,
                        routes |-> routes]
    /\ op = "none"
    /\ date = 0
    /\ ret = None
    /\ InitApp

NextTrips == GetTripsForDate

SpecTrips == InitTrips /\ [][NextTrips]_vars

\* Collections whose rows repeat keys: two trip_id values, two service_id
\* values, and exception rows of which two share (service_id, date).
InitValidate ==
    /\ \E trips \in SeqsUpTo({ t \in TripRows : t.route_id = "R1" /\ t.service_id = "WD" },
                             MaxRows),
          calendars \in SeqsUpTo({ c \in CalendarRows :
                                     /\ c.monday
                                     /\ c.start_date = DateStrings[1]
                                     /\ c.end_date = DateStrings[MaxDay] },
                                  MaxRows),
          calendarDates \in SeqsUpTo({ cd \in CalendarDateRows :
                                         /\ cd.date = DateStrings[1]
                                         /\ cd.service_id = "HOLIDAY" => cd.exception_type = 1 },
                                      MaxRows) :
            gtfsData = [calendars |-> calendars,
                        calendarDates |-> calendarDates,
                        trips |-> trips,
                        routes |-> << [route_id |-> "R1",
                                       route_short_name |-> "1"] >>]
    /\ op = "none"
    /\ date = 0
    /\ ret = None
    /\ InitApp

ValidateGTFSData ==
    /\ op' = "validateGTFSData"
    /\ ret' = validateGTFSData(gtfsData)
    /\ UNCHANGED <<gtfsData, date, appVars>>

NextValidate == ValidateGTFSData

SpecValidate == InitValidate /\ [][NextValidate]_vars

\* What new Date() may read: any time of a day from the day before the
\* window to the day after it.
ClockReadings ==
    { (d - 1) * MsPerDay + tod : d \in 0..(MaxDay + 1), tod \in {0, Noon} }

GetDateRange ==
    /\ op' = "getDateRange"
    /\ ret' = getDateRange(gtfsData)
    /\ UNCHANGED <<gtfsData, date, appVars>>

\* date records the clock reading of the call.
GetAvailableDates ==
    \E now \in ClockReadings :
        /\ op' = "getAvailableDates"
        /\ date' = now
        /\ ret' = getAvailableDates(gtfsData, now)
        /\ UNCHANGED <<gtfsData, appVars>>

NextRange ==
    \/ GetDateRange
    \/ GetAvailableDates

SpecRange == Init /\ [][NextRange]_vars

\* Datasets of at most one row per collection, for the core as a whole.
InitCore ==
    /\ \E calendars \in SeqsUpTo(CalendarRows, 1),
          calendarDates \in SeqsUpTo(CalendarDateRows, 1),
          trips \in SeqsUpTo(TripRows, 1),
          routes \in SeqsUpTo(RouteRows, 1) :
            gtfsData = [calendars |-> calendars,
                        calendarDates |-> calendarDates,
                        trips |-> trips,
                        routes |-> routes]
    /\ op = "none"
    /\ date = 0
    /\ ret = None
    /\ InitApp

GetDayInfo ==
    \E d \in Dates :
        /\ op' = "getDayInfo"
        /\ date' = d
        /\ ret' = getDayInfo(gtfsData, d)
        /\ UNCHANGED <<gtfsData, appVars>>

GetServiceStats ==
    /\ op' = "getServiceStats"
    /\ ret' = getServiceStats(gtfsData)
    /\ UNCHANGED <<gtfsData, date, appVars>>

\* Every function the core exports, called in any order.
NextCore ==
    \/ GetCalendarStatusForDate
    \/ GetBaseCalendarsForDate
    \/ GetTripsForDate
    \/ GetDayInfo
    \/ GetDateRange
    \/ GetAvailableDates
    \/ GetServiceStats
    \/ ValidateGTFSData

SpecCore == InitCore /\ [][NextCore]_vars

\* ------------------------------------------------------------ the application

\* The members parseGTFSZip looks for, in the order it reads them.
MemberFiles == << "calendar.txt", "calendar_dates.txt", "trips.txt", "routes.txt" >>

\* The rows each member of a readable feed parses to.
FeedTables ==
    [ m \in { MemberFiles[k] : k \in 1..Len(MemberFiles) } |->
        CASE m = "calendar.txt" -> << Calendar("WD", WeekdayFlags, 1, MaxDay) >>
          [] m = "calendar_dates.txt" ->
                << [service_id |-> "HOLIDAY", date |-> DateStrings[MaxDay],
                    exception_type |-> 1] >>
          [] m = "trips.txt" ->
                << [route_id |-> "R1", service_id |-> "WD", trip_id |-> "T1"] >>
          [] m = "routes.txt" -> << [route_id |-> "R1", route_short_name |-> "1"] >> ]

\* A File the user picks or drops: its name, the names JSZip lists in it,
\* what its members parse to, and where reading it is rejected: nowhere
\* ("none"), at loadAsync ("open") or at the async('text') of one member.
File(name, files, fault, message) ==
    [name |-> name, files |-> files, tables |-> FeedTables,
     fault |-> fault, message |-> message]

Files ==
    { File("feed.zip", MemberFiles, "none", ""),
      File("dates.zip", << "calendar_dates.txt", "trips.txt", "readme.txt" >>, "none", ""),
      File("routes.zip", << "trips.txt", "routes.txt" >>, "none", ""),
      File("calendar.zip", << "calendar.txt" >>, "none", ""),
      File("broken.zip", MemberFiles, "trips.txt", "Corrupted zip : CRC32 mismatch"),
      File("notes.txt", << >>, "open",
           "Can't find end of central directory : is this a zip file ?") }

\* files.includes(name), contents.file(name) !== null
Includes(files, name) == \E k \in 1..Len(files) : files[k] = name

\* file.name.endsWith('.zip')
EndsWithZip(name) ==
    \E stem \in {"feed", "dates", "routes", "calendar", "broken", "notes.txt"} : name = stem \o ".zip"

\* const data = { calendars: [], calendarDates: [], trips: [], routes: [] }
EmptyData == [calendars |-> << >>, calendarDates |-> << >>, trips |-> << >>, routes |-> << >>]

\* data.calendars = parseCalendars(csvText), and so on for each member.
WithTable(data, member, rows) ==
    CASE member = "calendar.txt" -> [data EXCEPT !.calendars = rows]
      [] member = "calendar_dates.txt" -> [data EXCEPT !.calendarDates = rows]
      [] member = "trips.txt" -> [data EXCEPT !.trips = rows]
      [] member = "routes.txt" -> [data EXCEPT !.routes = rows]

\* Variant: every member is read, whether the archive holds it or not.
NextMember_All(file, k) == IF k < Len(MemberFiles) THEN k + 1 ELSE 0

\* The first member after the k-th that the archive holds; 0 when none is left.
NextMember(file, k) ==
    IF \E m \in (k + 1)..Len(MemberFiles) : Includes(file.files, MemberFiles[m])
    THEN CHOOSE m \in (k + 1)..Len(MemberFiles) :
            /\ Includes(file.files, MemberFiles[m])
            /\ \A h \in (k + 1)..(m - 1) : ~Includes(file.files, MemberFiles[h])
    ELSE 0

MemberIndex(member) == CHOOSE k \in 1..Len(MemberFiles) : MemberFiles[k] = member

\* useMemo(() => (!gtfsData || !selectedDate) ? null : getDayInfo(...),
\* [gtfsData, selectedDate]): the memo is kept while both dependencies are.
dayInfoMemo(oldDeps, old, data, selected) ==
    IF oldDeps = << data, selected >> THEN old
    ELSE IF data = null \/ selected = null THEN null
    ELSE getDayInfo(data, selected[1])

\* The months the calendar can be turned to, on either side of July 2024.
MaxMonthShift == 1

\* A month is held as its number counted from July 2024, month 0, the month
\* of the window, and a day of a month as the number of its day in the
\* window; timestamps are kept for the days that can be selected.
monthLength(m) ==
    LET month == (m + 6) % 12
        year == 2024 + ((m + 6) \div 12)
    IN  IF month = 1 THEN (IF year % 4 = 0 THEN 29 ELSE 28)
        ELSE IF month \in {3, 5, 8, 10} THEN 30
        ELSE 31

\* The first day of month m as a day of the window: 1 July 2024 is four
\* days before day 1.
RECURSIVE monthFirstDay(_)
monthFirstDay(m) ==
    IF m = 0 THEN 1 - 4
    ELSE IF m > 0 THEN monthFirstDay(m - 1) + monthLength(m - 1)
    ELSE monthFirstDay(m + 1) - monthLength(m)

monthOf(d) ==
    CHOOSE m \in (0 - MaxMonthShift - 1)..(MaxMonthShift + 1) :
        /\ monthFirstDay(m) <= (d \div MsPerDay) + 1
        /\ (d \div MsPerDay) + 1 < monthFirstDay(m + 1)

\* date-fns startOfMonth: the month d falls in.
startOfMonth(d) == monthOf(d)

\* date-fns addMonths, subMonths on the first day of a month.
addMonths(month, n) == month + n
subMonths(month, n) == month - n

\* eachDayOfInterval({ start: startOfMonth(currentMonth),
\*                     end: endOfMonth(currentMonth) }): the day cells of
\* the month shown, first to last.
daysInMonth(month) ==
    [ k \in 1..monthLength(month) |-> monthFirstDay(month) + k - 1 ]

\* The Date of a day cell: local midnight of the day.
cellDate(day) == (day - 1) * MsPerDay

\* Variant: the cell of every day of the window is enabled.
isAvailable_WholeWindow(dates, day) == day \in Days

\* availableDateStrings.has(format(day, 'yyyy-MM-dd')): two dates give the
\* same string exactly when they fall on the same day.
isAvailable(dates, day) ==
    \E k \in 1..Len(dates) : (dates[k] \div MsPerDay) + 1 = day

\* The number of quick-select buttons at most.
QuickSelectCount == 14

\* availableDates.slice(0, 14)
quickSelect(dates) ==
    SubSeq(dates, 1, IF Len(dates) < QuickSelectCount THEN Len(dates)
                     ELSE QuickSelectCount)

\* What a render leaves of the three components' derived state.  The memo
\* of DateSelector is kept while gtfsData is; currentMonth is initialised
\* when DateSelector mounts and dropped when it unmounts.
Render ==
    /\ dayInfo' = dayInfoMemo(<<gtfsData, selectedDate>>, dayInfo,
                              gtfsData', selectedDate')
    /\ IF gtfsData' = null
       THEN availableDates' = << >> /\ currentMonth' = null
       ELSE IF gtfsData' = gtfsData
       THEN availableDates' = availableDates /\ currentMonth' = currentMonth
       ELSE \E now \in ClockReadings :
                LET dates == getAvailableDates(gtfsData', now)
                IN  /\ availableDates' = dates
                    /\ currentMonth' =
                          IF gtfsData # null THEN currentMonth
                          ELSE IF Len(dates) > 0 THEN Boxed(startOfMonth(dates[1]))
                          ELSE Boxed(startOfMonth(now))

\* FileUpload is mounted while App holds no dataset.  When it unmounts its
\* state is dropped and the invocations in flight are left with setters of
\* a component that is gone; a later mount starts from the initial state.
Unmounted(loading) ==
    [ n \in DOMAIN loading |->
        IF loading[n] = NoLoad THEN NoLoad ELSE [loading[n] EXCEPT !.stale = TRUE] ]

\* Variant: the selected date survives the new dataset.
handleDataLoaded_KeepDate(data) ==
    /\ gtfsData' = data
    /\ selectedDate' = selectedDate

\* App.handleDataLoaded
handleDataLoaded(data) ==
    /\ gtfsData' = data
    /\ selectedDate' = null

\* App.handleClearData, from the "Load Different File" button.
HandleClearData ==
    /\ gtfsData # null
    /\ op' = "handleClearData"
    /\ gtfsData' = null
    /\ selectedDate' = null
    /\ Render
    /\ UNCHANGED <<isLoading, error, fileName, fileList, loads, date, ret>>

\* onDateSelect(day): App.setSelectedDate and the render that follows.
onDateSelect(day) ==
    /\ selectedDate' = Boxed(day)
    /\ op' = "setSelectedDate"
    /\ UNCHANGED <<gtfsData, isLoading, error, fileName, fileList, loads, date, ret>>
    /\ Render

\* onClick of a day cell of the month shown: disabled unless isAvailable.
DayCellClick ==
    /\ gtfsData # null
    /\ getDateRange(gtfsData) # null
    /\ LET days == daysInMonth(currentMonth[1])
       IN  \E k \in 1..Len(days) :
              /\ isAvailable(availableDates, days[k])
              /\ onDateSelect(cellDate(days[k]))

\* onClick of a quick-select button.
QuickSelectClick ==
    /\ gtfsData # null
    /\ getDateRange(gtfsData) # null
    /\ \E k \in 1..Len(quickSelect(availableDates)) :
          onDateSelect(quickSelect(availableDates)[k])

\* DateSelector calls onDateSelect from a day cell or a quick-select button.
SetSelectedDate ==
    \/ DayCellClick
    \/ QuickSelectClick

\* handlePrevMonth, handleNextMonth: the buttons are rendered when the
\* dataset has a date range.
HandlePrevMonth ==
    /\ gtfsData # null
    /\ getDateRange(gtfsData) # null
    /\ currentMonth[1] > 0 - MaxMonthShift
    /\ op' = "handlePrevMonth"
    /\ currentMonth' = Boxed(subMonths(currentMonth[1], 1))
    /\ UNCHANGED <<gtfsData, selectedDate, dayInfo, availableDates, isLoading, error,
                   fileName, fileList, loads, date, ret>>

HandleNextMonth ==
    /\ gtfsData # null
    /\ getDateRange(gtfsData) # null
    /\ currentMonth[1] < MaxMonthShift
    /\ op' = "handleNextMonth"
    /\ currentMonth' = Boxed(addMonths(currentMonth[1], 1))
    /\ UNCHANGED <<gtfsData, selectedDate, dayInfo, availableDates, isLoading, error,
                   fileName, fileList, loads, date, ret>>

\* The synchronous head of handleFileChange for a file: the invocation takes
\* the first free number and waits for listGTFSFiles.
StartLoad(file) ==
    /\ \E n \in 1..MaxLoads : loads[n] = NoLoad
    /\ LET n == CHOOSE n \in 1..MaxLoads :
                    loads[n] = NoLoad /\ \A h \in 1..(n - 1) : loads[h] # NoLoad
       IN  loads' = [loads EXCEPT ![n] = [pc |-> "listGTFSFiles", file |-> file,
                                          stale |-> FALSE, data |-> EmptyData]]
    /\ isLoading' = TRUE
    /\ error' = null
    /\ fileName' = Boxed(file.name)
    /\ UNCHANGED <<gtfsData, selectedDate, dayInfo, availableDates, currentMonth,
                   fileList, date, ret>>

\* onChange of the file input, which is disabled while isLoading.
HandleFileChange ==
    /\ gtfsData = null
    /\ ~isLoading
    /\ op' = "handleFileChange"
    /\ \E file \in Files : StartLoad(file)

\* onDrop of the drop zone.
HandleDrop ==
    /\ gtfsData = null
    /\ op' = "handleDrop"
    /\ \E file \in Files :
          IF ~EndsWithZip(file.name)
          THEN /\ error' = Boxed("Please upload a .zip file")
               /\ UNCHANGED <<gtfsData, selectedDate, dayInfo, availableDates, currentMonth,
                              isLoading, fileName, fileList, loads, date, ret>>
          ELSE StartLoad(file)

\* catch (err) { setError(err.message); setFileList([]) } finally
\* { setIsLoading(false) }: invocation n ends; the setters of a component
\* that is gone do nothing.
Rejected(n, message) ==
    /\ op' = "catch"
    /\ loads' = [loads EXCEPT ![n] = NoLoad]
    /\ IF loads[n].stale
       THEN UNCHANGED <<isLoading, error, fileList>>
       ELSE /\ error' = Boxed(message)
            /\ fileList' = << >>
            /\ isLoading' = FALSE
    /\ UNCHANGED <<gtfsData, selectedDate, dayInfo, availableDates, currentMonth,
                   fileName, date, ret>>

\* parseGTFSZip has returned data: onDataLoaded(data), then finally
\* { setIsLoading(false) }; App now holds a dataset, so FileUpload unmounts
\* and DateSelector mounts or sees a new gtfsData.
Delivered(n, data) ==
    /\ op' = "handleDataLoaded"
    /\ handleDataLoaded(data)
    /\ loads' = Unmounted([loads EXCEPT ![n] = NoLoad])
    /\ isLoading' = FALSE
    /\ error' = null
    /\ fileName' = null
    /\ fileList' = << >>
    /\ Render
    /\ UNCHANGED <<date, ret>>

\* Variant: data is handed over as soon as one member has been read.
Continue_Eager(n, data, k) ==
    Delivered(n, data)

\* parseGTFSZip after its k-th member: it waits for the next member the
\* archive holds, or returns data when none is left.
Continue(n, data, k) ==
    IF NextMember(loads[n].file, k) = 0
    THEN Delivered(n, data)
    ELSE /\ op' = "parseGTFSZip"
         /\ loads' = [loads EXCEPT ![n].pc = MemberFiles[NextMember(loads[n].file, k)],
                                   ![n].data = data]
         /\ UNCHANGED <<gtfsData, selectedDate, dayInfo, availableDates, currentMonth,
                        isLoading, error, fileName, fileList, date, ret>>

\* await listGTFSFiles(file) settles for invocation n.
ListGTFSFiles ==
    \E n \in 1..MaxLoads :
        /\ loads[n].pc = "listGTFSFiles"
        /\ LET file == loads[n].file
           IN  IF file.fault = "open" THEN Rejected(n, file.message)
               ELSE IF ~ \/ Includes(file.files, "calendar.txt")
                         \/ Includes(file.files, "calendar_dates.txt")
               THEN Rejected(n, "GTFS file must contain calendar.txt or calendar_dates.txt")
               ELSE /\ op' = "listGTFSFiles"
                    /\ loads' = [loads EXCEPT ![n].pc = "loadAsync"]
                    /\ fileList' = IF loads[n].stale THEN fileList ELSE file.files
                    /\ UNCHANGED <<gtfsData, selectedDate, dayInfo, availableDates, currentMonth,
                                   isLoading, error, fileName, date, ret>>

\* await zip.loadAsync(file) of parseGTFSZip settles for invocation n.
LoadAsync ==
    \E n \in 1..MaxLoads :
        /\ loads[n].pc = "loadAsync"
        /\ IF loads[n].file.fault = "open" THEN Rejected(n, loads[n].file.message)
           ELSE Continue(n, EmptyData, 0)

\* await member.async('text') settles for invocation n.
ReadMember ==
    \E n \in 1..MaxLoads :
        /\ loads[n].pc \in { MemberFiles[k] : k \in 1..Len(MemberFiles) }
        /\ LET file == loads[n].file
               member == loads[n].pc
           IN  IF file.fault = member THEN Rejected(n, file.message)
               ELSE Continue(n, WithTable(loads[n].data, member, file.tables[member]),
                             MemberIndex(member))

InitUI ==
    /\ gtfsData = null
    /\ op = "none"
    /\ date = 0
    /\ ret = None
    /\ InitApp

NextUI ==
    \/ HandleFileChange
    \/ HandleDrop
    \/ ListGTFSFiles
    \/ LoadAsync
    \/ ReadMember
    \/ SetSelectedDate
    \/ HandlePrevMonth
    \/ HandleNextMonth
    \/ HandleClearData

SpecUI == InitUI /\ [][NextUI]_vars

\* Exception rows whose service_id or date may hold the '|' character (not
\* both at once, so that a key has three pieces at most).
PipeRows ==
    { cd \in [service_id : {"WD", "WD|" \o DateStrings[1]},
              date : {DateStrings[1], DateStrings[MaxDay],
                      DateStrings[1] \o "|" \o DateStrings[MaxDay]},
              exception_type : {1, 2}] :
        ~( cd.service_id # "WD" /\ cd.date \notin {DateStrings[1], DateStrings[MaxDay]} ) }

InitKeys ==
    /\ \E calendarDates \in SeqsUpTo(PipeRows, MaxRows) :
            gtfsData = [calendars |-> << >>,
                        calendarDates |-> calendarDates,
                        trips |-> << [route_id |-> "R1", service_id |-> "WD",
                                      trip_id |-> "T1"] >>,
                        routes |-> << [route_id |-> "R1",
                                       route_short_name |-> "1"] >>]
    /\ op = "none"
    /\ date = 0
    /\ ret = None
    /\ InitApp

NextKeys == ValidateGTFSData

SpecKeys == InitKeys /\ [][NextKeys]_vars

\* Datasets whose exceptions are parsed from text, of any exception_type,
\* over rows of the service "WD".
InitParsed ==
    /\ \E calendars \in SeqsUpTo({ c \in CalendarRows : c.service_id = "WD" }, 1),
          raw \in SeqsUpTo(RawCalendarDateRows, MaxCalendarDates) :
            gtfsData = [calendars |-> calendars,
                        calendarDates |-> parseCalendarDates(raw),
                        trips |-> << [route_id |-> "R1", service_id |-> "WD",
                                      trip_id |-> "T1"] >>,
                        routes |-> << [route_id |-> "R1",
                                       route_short_name |-> "1"] >>]
    /\ op = "none"
    /\ date = 0
    /\ ret = None
    /\ InitApp

NextParsed == GetCalendarStatusForDate

SpecParsed == InitParsed /\ [][NextParsed]_vars

\* ------------------------------------------------------------------ claims

\* Some calendar_dates.txt row has this service_id and the date of d.
HasException(data, service_id, d) ==
    \E j \in 1..Len(data.calendarDates) :
        /\ data.calendarDates[j].service_id = service_id
        /\ data.calendarDates[j].date = formatGTFSDate(d)

\* The first such row, in the collection's order.
FirstException(data, service_id, d) ==
    data.calendarDates[
        CHOOSE j \in 1..Len(data.calendarDates) :
            /\ data.calendarDates[j].service_id = service_id
            /\ data.calendarDates[j].date = formatGTFSDate(d)
            /\ \A k \in 1..(j - 1) :
                  ~ /\ data.calendarDates[k].service_id = service_id
                    /\ data.calendarDates[k].date = formatGTFSDate(d)]

\* Positions of list whose entry refers to calendar row i.
EntriesOf(list, i) == { k \in 1..Len(list) : list[k].calendar = i }

Resolved == op = "getCalendarStatusForDate"

C2_AddedRow ==
    Resolved =>
        \A i \in 1..Len(gtfsData.calendars) :
            LET calendar == gtfsData.calendars[i]
            IN  (/\ HasException(gtfsData, calendar.service_id, date)
                 /\ FirstException(gtfsData, calendar.service_id, date).exception_type = 1)
                =>  /\ EntriesOf(ret.excluded, i) = {}
                    /\ Cardinality(EntriesOf(ret.active, i)) = 1
                    /\ \A k \in EntriesOf(ret.active, i) :
                          /\ ret.active[k].service_id = calendar.service_id
                          /\ ret.active[k].isActive
                          /\ ret.active[k].isException
                          /\ ret.active[k].exceptionType = "added"

\* C2 happens: an Added exception on a row that is out of range or whose
\* weekday flag is off, and the row is in active.
C2_Witness ==
    /\ Resolved
    /\ \E i \in 1..Len(gtfsData.calendars) :
          /\ HasException(gtfsData, gtfsData.calendars[i].service_id, date)
          /\ FirstException(gtfsData, gtfsData.calendars[i].service_id, date).exception_type = 1
          /\ ~baseActive(gtfsData.calendars[i], date)
          /\ EntriesOf(ret.active, i) # {}

MatchingExceptions(data, service_id, d) ==
    { j \in 1..Len(data.calendarDates) :
        /\ data.calendarDates[j].service_id = service_id
        /\ data.calendarDates[j].date = formatGTFSDate(d) }

\* C4: when several exception rows match the (service_id, date) of a calendar
\* row, the row's status is decided by the first of them alone: the entry is
\* the one the first row's type yields, whatever the later rows say.
C4_FirstExceptionWins ==
    Resolved =>
        \A i \in 1..Len(gtfsData.calendars) :
            LET calendar == gtfsData.calendars[i]
                matching == MatchingExceptions(gtfsData, calendar.service_id, date)
                first == CHOOSE j \in matching : \A k \in matching : j <= k
            IN  Cardinality(matching) >= 2 =>
                    IF gtfsData.calendarDates[first].exception_type = 1
                    THEN /\ Cardinality(EntriesOf(ret.active, i)) = 1
                         /\ \A k \in EntriesOf(ret.active, i) :
                               ret.active[k].exceptionType = "added"
                         /\ EntriesOf(ret.excluded, i) = {}
                    ELSE /\ EntriesOf(ret.active, i) = {}
                         /\ \A k \in EntriesOf(ret.excluded, i) :
                               ret.excluded[k].exceptionType = "removed"
                         /\ Cardinality(EntriesOf(ret.excluded, i))
                               = IF baseActive(calendar, date) THEN 1 ELSE 0

\* C4 happens: two matching rows of opposite types; the row is excluded
\* because the first is Removed, although an Added row follows.
C4_Witness ==
    /\ Resolved
    /\ \E i \in 1..Len(gtfsData.calendars) :
          LET matching == MatchingExceptions(gtfsData, gtfsData.calendars[i].service_id, date)
          IN  /\ Cardinality(matching) >= 2
              /\ \E j, k \in matching :
                    /\ j < k
                    /\ gtfsData.calendarDates[j].exception_type = 2
                    /\ gtfsData.calendarDates[k].exception_type = 1
              /\ EntriesOf(ret.excluded, i) # {}

\* The exception rows of the exception-only pass: on the date of d, service_id
\* in no calendar row, type Added; in the collection's order.
ExceptionOnlyAdded(data, d) ==
    LET Emits(cd) ==
            /\ cd.date = formatGTFSDate(d)
            /\ \A i \in 1..Len(data.calendars) :
                  data.calendars[i].service_id # cd.service_id
            /\ cd.exception_type = 1
    IN  SelectSeq(data.calendarDates, Emits)

WithoutCalendar(list) ==
    LET Unreferenced(s) == s.calendar = 0
    IN  SelectSeq(list, Unreferenced)

\* C5: the entries without calendar reference are exactly, in order, one
\* active entry (isException = true, exceptionType = added) per Added exception
\* row on the date whose service_id is in no calendar row; Removed rows of that
\* kind and rows whose service_id is in the calendar collection emit nothing
\* in this pass, and excluded holds no such entry.
C5_ExceptionOnly ==
    Resolved =>
        LET got == WithoutCalendar(ret.active)
            want == ExceptionOnlyAdded(gtfsData, date)
        IN  /\ Len(got) = Len(want)
            /\ \A k \in 1..Len(got) :
                  /\ got[k].service_id = want[k].service_id
                  /\ got[k].isActive
                  /\ got[k].isException
                  /\ got[k].exceptionType = "added"
            /\ WithoutCalendar(ret.excluded) = <<>>
            /\ \A k \in 1..Len(ret.active) :
                  ret.active[k].calendar # 0 =>
                      \A m \in 1..Len(ret.active) :
                          ret.active[m].calendar = 0 => k < m

\* C5 happens: an Added row for a service in no calendar row is emitted, while
\* an Added row on the same date for a service of calendar.txt is not emitted
\* a second time by this pass.
C5_Witness ==
    /\ Resolved
    /\ Len(gtfsData.calendars) > 0
    /\ Len(WithoutCalendar(ret.active)) = 1
    /\ \E j, k \in 1..Len(gtfsData.calendarDates) :
          /\ gtfsData.calendarDates[j].date = formatGTFSDate(date)
          /\ gtfsData.calendarDates[j].exception_type = 1
          /\ gtfsData.calendarDates[j].service_id = "HOLIDAY"
          /\ gtfsData.calendarDates[k].date = formatGTFSDate(date)
          /\ gtfsData.calendarDates[k].exception_type = 1
          /\ \E i \in 1..Len(gtfsData.calendars) :
                gtfsData.calendars[i].service_id = gtfsData.calendarDates[k].service_id

\* C5, second case: a Removed row for a service in no calendar row emits
\* nothing.
C5_WitnessRemoved ==
    /\ Resolved
    /\ \E j \in 1..Len(gtfsData.calendarDates) :
          /\ gtfsData.calendarDates[j].date = formatGTFSDate(date)
          /\ gtfsData.calendarDates[j].exception_type = 2
          /\ gtfsData.calendarDates[j].service_id = "HOLIDAY"
    /\ ret.active = <<>>
    /\ ret.excluded = <<>>

\* C6: calendar rows are not merged by service_id: two rows with the same
\* service_id, both baseActive on the date and without exception, yield two
\* active entries with that service_id, in calendar-row order; in general the
\* entries of active that refer to a calendar row are in row order.
C6_RowsNotMerged ==
    Resolved =>
        /\ \A i, h \in 1..Len(gtfsData.calendars) :
              (/\ i < h
               /\ gtfsData.calendars[i].service_id = gtfsData.calendars[h].service_id
               /\ ~HasException(gtfsData, gtfsData.calendars[i].service_id, date)
               /\ baseActive(gtfsData.calendars[i], date)
               /\ baseActive(gtfsData.calendars[h], date))
              => \E k, m \in 1..Len(ret.active) :
                    /\ k < m
                    /\ ret.active[k].calendar = i
                    /\ ret.active[m].calendar = h
                    /\ ret.active[k].service_id = gtfsData.calendars[i].service_id
                    /\ ret.active[m].service_id = gtfsData.calendars[i].service_id
        /\ \A k, m \in 1..Len(ret.active) :
              (k < m /\ ret.active[k].calendar # 0 /\ ret.active[m].calendar # 0)
              => ret.active[k].calendar < ret.active[m].calendar

\* C6 happens: two rows with the same service_id, both running on the date.
C6_Witness ==
    /\ Resolved
    /\ Len(gtfsData.calendars) = 2
    /\ gtfsData.calendars[1].service_id = gtfsData.calendars[2].service_id
    /\ gtfsData.calendars[1] # gtfsData.calendars[2]
    /\ baseActive(gtfsData.calendars[1], date)
    /\ baseActive(gtfsData.calendars[2], date)
    /\ Len(ret.active) = 2
    /\ ret.active[1].service_id = ret.active[2].service_id

DayOf(d) == (d \div MsPerDay) + 1
DayNumber(dateString) ==
    CHOOSE k \in 1..Len(DateStrings) : DateStrings[k] = dateString

\* The day of d is outside [start_date, end_date] of the row; the interval of
\* a row whose start_date is after its end_date holds no day.
OutsideRange(calendar, d) ==
    ~ /\ DayNumber(calendar.start_date) <= DayOf(d)
      /\ DayOf(d) <= DayNumber(calendar.end_date)

\* C8: for a date outside every calendar row's [start_date, end_date] and
\* equal to the date of no exception row, getCalendarStatusForDate returns an
\* empty active list and an empty excluded list.
C8_EmptyOutsideEveryRange ==
    ( /\ Resolved
      /\ \A i \in 1..Len(gtfsData.calendars) :
            OutsideRange(gtfsData.calendars[i], date)
      /\ \A j \in 1..Len(gtfsData.calendarDates) :
            DayNumber(gtfsData.calendarDates[j].date) # DayOf(date) )
    => (ret.active = <<>> /\ ret.excluded = <<>>)

TripsProjected == op = "getTripsForDate"

\* The input trip a returned TripWithRoute spreads.
TripOf(t) ==
    [route_id |-> t.route_id, service_id |-> t.service_id, trip_id |-> t.trip_id]

\* C9: getTripsForDate returns exactly the sub-sequence of the input trips, in
\* input order and each at most once, whose service_id is among the
\* service_ids of the active list of getCalendarStatusForDate for the same
\* dataset and date; a trip whose service_id is only in excluded, or in no
\* calendar or exception, is not returned.
C9_TripsOfActiveServices ==
    TripsProjected =>
        LET status == getCalendarStatusForDate(gtfsData, date)
            activeIds == { status.active[k].service_id : k \in 1..Len(status.active) }
            Runs(trip) == trip.service_id \in activeIds
            want == SelectSeq(gtfsData.trips, Runs)
        IN  /\ Len(ret) = Len(want)
            /\ \A k \in 1..Len(ret) :
                  /\ TripOf(ret[k]) = want[k]
                  /\ ret[k].service_id \in activeIds

\* C9 happens: of two trips one is returned; the other is left out because
\* its service is excluded on the date by a Removed exception.
C9_Witness ==
    /\ TripsProjected
    /\ Len(gtfsData.trips) = 2
    /\ Len(ret) = 1
    /\ TripOf(ret[1]) = gtfsData.trips[2]
    /\ LET status == getCalendarStatusForDate(gtfsData, date)
       IN  /\ Len(status.excluded) = 1
           /\ status.excluded[1].service_id = gtfsData.trips[1].service_id

\* C10: every returned trip carries a route whose route_id is the trip's
\* route_id when the route collection has one, and no route when it has none.
C10_RouteAttached ==
    TripsProjected =>
        \A k \in 1..Len(ret) :
            IF \E r \in 1..Len(gtfsData.routes) :
                  gtfsData.routes[r].route_id = ret[k].route_id
            THEN /\ ret[k].route \in 1..Len(gtfsData.routes)
                 /\ gtfsData.routes[ret[k].route].route_id = ret[k].route_id
            ELSE ret[k].route = 0

\* C10 happens: one returned trip has its route, with route_short_name "1",
\* and another returned trip has none.
C10_Witness ==
    /\ TripsProjected
    /\ Len(ret) = 2
    /\ ret[1].route # 0
    /\ gtfsData.routes[ret[1].route].route_short_name = "1"
    /\ ret[2].route = 0

Validated == op = "validateGTFSData"

\* The issues of ret that are about one file.
IssuesOf(file) == { k \in 1..Len(ret.issues) : ret.issues[k].file = file }

\* The key values met at least twice in a column.
Repeated(keys) ==
    { keys[i] : i \in { i \in 1..Len(keys) : \E j \in 1..Len(keys) : j # i /\ keys[j] = keys[i] } }

FirstIndex(keys, key) ==
    CHOOSE i \in 1..Len(keys) : keys[i] = key /\ \A j \in 1..(i - 1) : keys[j] # key

\* One issue about file exactly when a key repeats, and its duplicates list
\* holds each repeated key once, in the order the keys are first met.
DuplicatesReported(file, field, keys) ==
    /\ Cardinality(IssuesOf(file)) = (IF Repeated(keys) = {} THEN 0 ELSE 1)
    /\ \A k \in IssuesOf(file) :
          LET duplicates == ret.issues[k].duplicates
          IN  /\ ret.issues[k].field = field
              /\ { duplicates[n] : n \in 1..Len(duplicates) } = Repeated(keys)
              /\ Len(duplicates) = Cardinality(Repeated(keys))
              /\ \A m, n \in 1..Len(duplicates) :
                    m < n => FirstIndex(keys, duplicates[m]) < FirstIndex(keys, duplicates[n])

\* C11: validateGTFSData reports one issue for trips.txt (trip_id) and one for
\* calendar.txt (service_id) exactly when some key value occurs in two rows
\* or more, and the issue's duplicates list holds every such key value
\* exactly once, in order of first encounter, however many rows repeat it.
C11_DuplicateKeys ==
    Validated =>
        /\ DuplicatesReported("trips.txt", "trip_id",
                              [ i \in 1..Len(gtfsData.trips) |-> gtfsData.trips[i].trip_id ])
        /\ DuplicatesReported("calendar.txt", "service_id",
                              [ i \in 1..Len(gtfsData.calendars) |->
                                    gtfsData.calendars[i].service_id ])

\* C11 happens: trips T2, T1, T1, T2 are reported as T2 then T1, and a
\* service_id carried by three rows or more is reported once.
C11_Witness ==
    /\ Validated
    /\ Len(gtfsData.trips) = 4
    /\ gtfsData.trips[1].trip_id = "T2" /\ gtfsData.trips[2].trip_id = "T1"
    /\ gtfsData.trips[3].trip_id = "T1" /\ gtfsData.trips[4].trip_id = "T2"
    /\ \E k \in IssuesOf("trips.txt") : ret.issues[k].duplicates = << "T2", "T1" >>
    /\ \E k \in IssuesOf("calendar.txt") :
          /\ ret.issues[k].duplicates = << "WD" >>
          /\ Cardinality({ i \in 1..Len(gtfsData.calendars) :
                             gtfsData.calendars[i].service_id = "WD" }) >= 3

\* The files validateGTFSData checks, in the order it checks them.
CheckedFiles == << "trips.txt", "calendar.txt", "calendar_dates.txt" >>

FileRank(file) == CHOOSE r \in 1..Len(CheckedFiles) : CheckedFiles[r] = file

\* C12: the call always returns a ValidationResult; isValid is true exactly
\* when the issue list is empty; there are at most three issues, at most one
\* per table, in the fixed order trips.txt, calendar.txt, calendar_dates.txt.
C12_ValidationResult ==
    Validated =>
        /\ DOMAIN ret = {"isValid", "issues", "stats"}
        /\ ret.isValid = (ret.issues = << >>)
        /\ Len(ret.issues) <= Len(CheckedFiles)
        /\ \A k \in 1..Len(ret.issues) :
              \E r \in 1..Len(CheckedFiles) : ret.issues[k].file = CheckedFiles[r]
        /\ \A m, n \in 1..Len(ret.issues) :
              m < n => FileRank(ret.issues[m].file) < FileRank(ret.issues[n].file)

\* C12 happens: every table repeats a key, the three issues come in the fixed
\* order and the result is not valid.
C12_Witness ==
    /\ Validated
    /\ ~ret.isValid
    /\ [ k \in 1..Len(ret.issues) |-> ret.issues[k].file ] = CheckedFiles
    /\ ret.issues[3].duplicates = << "service_id=\"WD\", date=\"20240705\"" >>

\* C12 happens the other way too: no table repeats a key and the result is valid.
C12_WitnessValid ==
    /\ Validated
    /\ ret.isValid
    /\ Len(gtfsData.trips) > 1 /\ Len(gtfsData.calendars) > 1
    /\ Len(gtfsData.calendarDates) > 1

BaseListed == op = "getBaseCalendarsForDate"

\* C13: the range test is inclusive at both ends: for a row with
\* start_date <= end_date whose weekday flag for the date is set, a target
\* date on the day of start_date or on the day of end_date, whatever its time
\* of day, is in range, and getBaseCalendarsForDate returns the row.
C13_InclusiveEnds ==
    BaseListed =>
        \A i \in 1..Len(gtfsData.calendars) :
            LET calendar == gtfsData.calendars[i]
            IN  ( /\ DayNumber(calendar.start_date) <= DayNumber(calendar.end_date)
                  /\ DayOf(date) \in { DayNumber(calendar.start_date),
                                       DayNumber(calendar.end_date) }
                  /\ isCalendarActiveOnDayOfWeek(calendar, date) )
                => ( /\ isDateInCalendarRange(calendar, date)
                     /\ Cardinality(EntriesOf(ret, i)) = 1 )

\* C14: a row whose start_date is after its end_date matches no date: it is
\* in range of none, getBaseCalendarsForDate never returns it and, unless an
\* exception row matches it, getCalendarStatusForDate lists it nowhere; both
\* calls return their lists.
C14_ReversedNeverMatches ==
    \A i \in 1..Len(gtfsData.calendars) :
        LET calendar == gtfsData.calendars[i]
        IN  DayNumber(calendar.start_date) > DayNumber(calendar.end_date) =>
                /\ BaseListed =>
                      /\ ~isDateInCalendarRange(calendar, date)
                      /\ EntriesOf(ret, i) = {}
                /\ (Resolved /\ ~HasException(gtfsData, calendar.service_id, date)) =>
                      /\ DOMAIN ret = {"active", "excluded"}
                      /\ EntriesOf(ret.active, i) = {}
                      /\ EntriesOf(ret.excluded, i) = {}

Ranged == op = "getDateRange"

\* Every date a dataset names: calendar start_dates, calendar end_dates and
\* exception dates, as local midnights.
NamedDates(data) ==
    { parseGTFSDate(data.calendars[i].start_date) : i \in 1..Len(data.calendars) }
    \cup { parseGTFSDate(data.calendars[i].end_date) : i \in 1..Len(data.calendars) }
    \cup { parseGTFSDate(data.calendarDates[j].date) : j \in 1..Len(data.calendarDates) }

\* C15: getDateRange returns null exactly when calendars and calendarDates
\* are both empty; otherwise its start is the earliest and its end the latest
\* of all calendar start_dates, calendar end_dates and exception dates, so
\* that start <= end and each of those dates lies inside.
C15_DateRange ==
    Ranged =>
        IF Len(gtfsData.calendars) = 0 /\ Len(gtfsData.calendarDates) = 0
        THEN ret = null
        ELSE /\ ret # null
             /\ ret.start \in NamedDates(gtfsData)
             /\ ret.end \in NamedDates(gtfsData)
             /\ ret.start <= ret.end
             /\ \A d \in NamedDates(gtfsData) : ret.start <= d /\ d <= ret.end

Listed == op = "getAvailableDates"

\* C16: for the clock reading of the call, today being its day, and
\* range = getDateRange(dataset), getAvailableDates returns one entry per
\* day from the later of today and range.start up to range.end, in ascending
\* order; the list is empty when the range is empty or today is after
\* range.end; no entry is before today or outside the range.
C16_AvailableDates ==
    Listed =>
        LET range == getDateRange(gtfsData)
            today == DayOf(date)
        IN  IF range = null THEN ret = << >>
            ELSE LET first == IF today > DayOf(range.start) THEN today
                              ELSE DayOf(range.start)
                     last == DayOf(range.end)
                 IN  /\ Len(ret) = (IF first > last THEN 0 ELSE last - first + 1)
                     /\ \A k \in 1..Len(ret) :
                           /\ ret[k] = (first + k - 2) * MsPerDay
                           /\ DayOf(ret[k]) >= today
                           /\ range.start <= ret[k] /\ ret[k] <= range.end
                     /\ today > last => ret = << >>

\* C16 happens: the clock reads noon of a day inside a range that started
\* earlier, and the list runs from that day to the end of the range.
C16_Witness ==
    /\ Listed
    /\ date % MsPerDay = Noon
    /\ getDateRange(gtfsData) # null
    /\ Len(ret) >= 1
    /\ ret[1] = startOfDay(date)
    /\ ret[1] > getDateRange(gtfsData).start
    /\ ret[Len(ret)] = getDateRange(gtfsData).end

\* C16 happens with today before the range: the list holds every day of a
\* range of several days.
C16_WitnessWhole ==
    /\ Listed
    /\ getDateRange(gtfsData) # null
    /\ startOfDay(date) < getDateRange(gtfsData).start
    /\ Len(ret) > 1
    /\ ret[1] = getDateRange(gtfsData).start
    /\ ret[Len(ret)] = getDateRange(gtfsData).end

\* C16 happens the other way too: today is after the end of a range.
C16_WitnessPast ==
    /\ Listed
    /\ getDateRange(gtfsData) # null
    /\ getDateRange(gtfsData).start <= getDateRange(gtfsData).end
    /\ startOfDay(date) > getDateRange(gtfsData).end
    /\ ret = << >>

\* A row of gtfsData.trips as trips.txt gives it: no route attached.
InputTrip(t) == DOMAIN t = {"route_id", "service_id", "trip_id"}

\* C18: no call of the core changes its input: across every call of
\* getCalendarStatusForDate, getBaseCalendarsForDate, getTripsForDate,
\* getDayInfo, getDateRange, getAvailableDates, getServiceStats and
\* validateGTFSData the four collections stay what they were, and the trips
\* returned with a route are records of their own, the dataset's trips
\* carrying no route after the call.
C18_InputsUnchanged ==
    [][ /\ gtfsData' = gtfsData
        /\ \A k \in 1..Len(gtfsData'.trips) : InputTrip(gtfsData'.trips[k]) ]_vars

\* C18 happens: getTripsForDate has returned a trip with its route attached,
\* and the trip of the dataset has none.
C18_Witness ==
    /\ op = "getTripsForDate"
    /\ Len(ret) = 1
    /\ ret[1].route # 0
    /\ Len(gtfsData.trips) = 1
    /\ InputTrip(gtfsData.trips[1])
    /\ TripOf(ret[1]) = gtfsData.trips[1]

\* C18 happens for getDayInfo too: the day's trips carry their route and the
\* dataset's trip does not.
C18_WitnessDayInfo ==
    /\ op = "getDayInfo"
    /\ Len(ret.activeTrips) = 1
    /\ ret.activeTrips[1].route # 0
    /\ InputTrip(gtfsData.trips[1])

\* C19: replacing or clearing the dataset carries no selection over: right
\* after handleDataLoaded and after handleClearData selectedDate is null (and
\* so is dayInfo); dayInfo is non-null only when a dataset and a selected
\* date are both present, and it is then the day info of the dataset App
\* holds now, for the date selected now.
C19_NoStateCarriedOver ==
    /\ op \in {"handleDataLoaded", "handleClearData"} =>
          selectedDate = null /\ dayInfo = null
    /\ dayInfo # null =>
          /\ gtfsData # null
          /\ selectedDate # null
          /\ dayInfo = getDayInfo(gtfsData, selectedDate[1])

\* C19 happens: a dataset has just been handed to App while another load was
\* in flight, so that a second handleDataLoaded is still to come; the
\* selection is empty and the date picker offers the new dataset's dates.
C19_Witness ==
    /\ op = "handleDataLoaded"
    /\ gtfsData # null
    /\ selectedDate = null
    /\ dayInfo = null
    /\ availableDates # << >>
    /\ \E n \in 1..MaxLoads : loads[n] # NoLoad /\ loads[n].stale

\* C19 happens: day info is on display for a selected date of the loaded
\* dataset while a load that will replace the dataset is in flight.
C19_WitnessDisplayed ==
    /\ op = "setSelectedDate"
    /\ dayInfo # null
    /\ dayInfo.activeCalendars # << >>
    /\ \E n \in 1..MaxLoads : loads[n] # NoLoad

\* What parseGTFSZip makes of an archive it can read to the end: the rows
\* of every member the archive holds, an empty collection for the others.
WholeSnapshot(file) ==
    [calendars |-> IF Includes(file.files, "calendar.txt")
                   THEN file.tables["calendar.txt"] ELSE << >>,
     calendarDates |-> IF Includes(file.files, "calendar_dates.txt")
                       THEN file.tables["calendar_dates.txt"] ELSE << >>,
     trips |-> IF Includes(file.files, "trips.txt")
               THEN file.tables["trips.txt"] ELSE << >>,
     routes |-> IF Includes(file.files, "routes.txt")
                THEN file.tables["routes.txt"] ELSE << >>]

\* Listing or parsing the file fails, or it has neither calendar file.
LoadFails(file) ==
    \/ file.fault # "none"
    \/ ~ \/ Includes(file.files, "calendar.txt")
         \/ Includes(file.files, "calendar_dates.txt")

\* C20: App receives a dataset only from a handleFileChange invocation whose
\* parseGTFSZip has read every member to the end, and receives the four
\* collections of that archive at once; an invocation whose listing or
\* parsing fails, or whose archive has neither calendar.txt nor
\* calendar_dates.txt, ends without handing anything to App and with an
\* error message set; isLoading is false when an invocation ends (the
\* setters of an invocation whose FileUpload has unmounted reach no state).
C20_WholeSnapshotOrError ==
    [][ /\ (gtfsData' # gtfsData /\ gtfsData' # null) =>
              \E n \in 1..MaxLoads :
                  /\ loads[n] # NoLoad
                  /\ loads'[n] = NoLoad
                  /\ ~LoadFails(loads[n].file)
                  /\ gtfsData' = WholeSnapshot(loads[n].file)
        /\ \A n \in 1..MaxLoads :
              (loads[n] # NoLoad /\ loads'[n] = NoLoad) =>
                  /\ ~loads[n].stale => isLoading' = FALSE
                  /\ IF LoadFails(loads[n].file)
                     THEN /\ gtfsData' = gtfsData
                          /\ ~loads[n].stale => error' # null
                     ELSE gtfsData' = WholeSnapshot(loads[n].file) ]_vars

\* C20 happens: an archive without calendar.txt and routes.txt has been read
\* to the end and App holds its four collections, two of them empty.
C20_Witness ==
    /\ op = "handleDataLoaded"
    /\ gtfsData # null
    /\ gtfsData.calendars = << >> /\ gtfsData.routes = << >>
    /\ gtfsData.calendarDates # << >> /\ gtfsData.trips # << >>
    /\ ~isLoading

\* C20 happens the other way: parsing failed at the third member, after two
\* tables had been read; App holds nothing, the error is set and isLoading
\* is false again.
C20_WitnessError ==
    /\ op = "catch"
    /\ gtfsData = null
    /\ error = Boxed("Corrupted zip : CRC32 mismatch")
    /\ fileName = Boxed("broken.zip")
    /\ ~isLoading
    /\ \A n \in 1..MaxLoads : loads[n] = NoLoad

\* Invocation n ends in this step.
Ends(n) == loads[n] # NoLoad /\ loads'[n] = NoLoad

\* The collection of data a member fills.
TableOf(data, member) ==
    CASE member = "calendar.txt" -> data.calendars
      [] member = "calendar_dates.txt" -> data.calendarDates
      [] member = "trips.txt" -> data.trips
      [] member = "routes.txt" -> data.routes

\* The invocation of a readable archive ends by handing App a dataset whose
\* collection is empty for every member the archive lacks.
LoadsWithEmptyTables(n) ==
    /\ op' = "handleDataLoaded"
    /\ gtfsData' # null
    /\ \A k \in 1..Len(MemberFiles) :
          IF Includes(loads[n].file.files, MemberFiles[k])
          THEN TableOf(gtfsData', MemberFiles[k]) = loads[n].file.tables[MemberFiles[k]]
          ELSE TableOf(gtfsData', MemberFiles[k]) = << >>

\* C21 as claimed: whatever members a readable archive lacks, in any
\* combination, its load ends with those collections empty and never in an
\* error.
C21_MissingTablesNeverAnError ==
    [][ \A n \in 1..MaxLoads :
            (Ends(n) /\ loads[n].file.fault = "none") => LoadsWithEmptyTables(n) ]_vars

\* C21, amended: a readable archive that holds calendar.txt or
\* calendar_dates.txt loads without error whatever other members it lacks,
\* each missing member giving an empty collection; an archive that holds
\* neither of the two is refused with an error and nothing is loaded.
C21_MissingTablesEmpty ==
    [][ \A n \in 1..MaxLoads :
            (Ends(n) /\ loads[n].file.fault = "none") =>
                IF \/ Includes(loads[n].file.files, "calendar.txt")
                   \/ Includes(loads[n].file.files, "calendar_dates.txt")
                THEN LoadsWithEmptyTables(n)
                ELSE /\ op' = "catch"
                     /\ gtfsData' = gtfsData
                     /\ ~loads[n].stale =>
                           error' = Boxed("GTFS file must contain calendar.txt or calendar_dates.txt") ]_vars

\* C21 happens: an archive holding calendar.txt alone has been loaded; the
\* three other collections are empty and no error is shown.
C21_Witness ==
    /\ op = "handleDataLoaded"
    /\ gtfsData # null
    /\ gtfsData.calendars # << >>
    /\ gtfsData.calendarDates = << >>
    /\ gtfsData.trips = << >>
    /\ gtfsData.routes = << >>
    /\ error = null

\* C21's refused case happens: an archive with trips.txt and routes.txt only.
C21_WitnessRefused ==
    /\ op = "catch"
    /\ fileName = Boxed("routes.zip")
    /\ error = Boxed("GTFS file must contain calendar.txt or calendar_dates.txt")
    /\ gtfsData = null

\* C22: when the first exception row matching a calendar row's (service_id,
\* date) has an exception_type that is neither 1 nor 2, the call still
\* returns its two lists and the row is in neither of them, base-active or not.
C22_MalformedExceptionType ==
    Resolved =>
        /\ DOMAIN ret = {"active", "excluded"}
        /\ \A i \in 1..Len(gtfsData.calendars) :
              LET calendar == gtfsData.calendars[i]
              IN  ( /\ HasException(gtfsData, calendar.service_id, date)
                    /\ FirstException(gtfsData, calendar.service_id, date).exception_type
                          \notin {1, 2} )
                  => ( /\ EntriesOf(ret.active, i) = {}
                       /\ EntriesOf(ret.excluded, i) = {} )

\* C22 happens: a base-active row whose first matching exception has no
\* readable type (NaN), followed by a matching Added row, is listed nowhere.
C22_Witness ==
    /\ Resolved
    /\ Len(gtfsData.calendars) = 1
    /\ baseActive(gtfsData.calendars[1], date)
    /\ Len(gtfsData.calendarDates) = 2
    /\ gtfsData.calendarDates[1].service_id = gtfsData.calendars[1].service_id
    /\ gtfsData.calendarDates[1].date = formatGTFSDate(date)
    /\ gtfsData.calendarDates[1].exception_type = NaN
    /\ gtfsData.calendarDates[2] =
          [gtfsData.calendarDates[1] EXCEPT !.exception_type = 1]
    /\ ret.active = << >>
    /\ ret.excluded = << >>

\* The (service_id, date) pairs carried by two exception rows or more.
RepeatedPairs ==
    { <<gtfsData.calendarDates[i].service_id, gtfsData.calendarDates[i].date>> :
        i \in { i \in 1..Len(gtfsData.calendarDates) :
                  \E j \in 1..Len(gtfsData.calendarDates) :
                      /\ j # i
                      /\ gtfsData.calendarDates[j].service_id
                            = gtfsData.calendarDates[i].service_id
                      /\ gtfsData.calendarDates[j].date = gtfsData.calendarDates[i].date } }

PairLabel(pair) == "service_id=\"" \o pair[1] \o "\", date=\"" \o pair[2] \o "\""

\* C23: validateGTFSData produces the calendar_dates.txt issue exactly when
\* two exception rows or more have the same service_id and the same date,
\* whatever characters the two strings hold ('|' included), and the issue's
\* duplicates name exactly the (service_id, date) pairs that are repeated.
C23_PairDuplicates ==
    Validated =>
        /\ Cardinality(IssuesOf("calendar_dates.txt"))
              = (IF RepeatedPairs = {} THEN 0 ELSE 1)
        /\ \A k \in IssuesOf("calendar_dates.txt") :
              LET duplicates == ret.issues[k].duplicates
              IN  { duplicates[n] : n \in 1..Len(duplicates) }
                      = { PairLabel(pair) : pair \in RepeatedPairs }

ServiceIdsOf(list) == { list[k].service_id : k \in 1..Len(list) }

\* C24: no service_id is both in the active list and in the excluded list of
\* one result, and a calendar row has one entry at most in the two lists
\* taken together; duplicate calendar rows, repeated or conflicting
\* exception rows and exception-only services included.
C24_ActiveExcludedDisjoint ==
    Resolved =>
        /\ ServiceIdsOf(ret.active) \cap ServiceIdsOf(ret.excluded) = {}
        /\ \A i \in 1..Len(gtfsData.calendars) :
              Cardinality(EntriesOf(ret.active, i))
                  + Cardinality(EntriesOf(ret.excluded, i)) <= 1

\* C24 happens: two base-active rows of one service_id with a Removed
\* exception followed by an Added exception for the same date are both
\* excluded, and the service is not active.
C24_Witness ==
    /\ Resolved
    /\ Len(gtfsData.calendars) = 2
    /\ gtfsData.calendars[1].service_id = gtfsData.calendars[2].service_id
    /\ gtfsData.calendars[1] # gtfsData.calendars[2]
    /\ Len(gtfsData.calendarDates) = 2
    /\ gtfsData.calendarDates[1].exception_type = 2
    /\ gtfsData.calendarDates[2] =
          [gtfsData.calendarDates[1] EXCEPT !.exception_type = 1]
    /\ gtfsData.calendarDates[1].service_id = gtfsData.calendars[1].service_id
    /\ gtfsData.calendarDates[1].date = formatGTFSDate(date)
    /\ Len(ret.excluded) = 2
    /\ ret.active = << >>

\* C24 happens with an exception-only service too: it is active next to an
\* excluded calendar row.
C24_WitnessExceptionOnly ==
    /\ Resolved
    /\ Len(ret.excluded) = 1
    /\ Len(ret.active) = 1
    /\ ret.active[1].calendar = 0
    /\ ret.excluded[1].calendar # 0

\* What holds of an entry whichever list it is on: exceptionType is set
\* exactly when isException is, the calendar back-reference is missing
\* exactly when no calendar row has the entry's service_id, and a
\* back-reference is a calendar row of that service_id.
WellFormedStatus(s) ==
    /\ (s.exceptionType # "undefined") = s.isException
    /\ (s.calendar = 0)
          = (\A i \in 1..Len(gtfsData.calendars) :
                gtfsData.calendars[i].service_id # s.service_id)
    /\ s.calendar # 0 =>
          /\ s.calendar \in 1..Len(gtfsData.calendars)
          /\ gtfsData.calendars[s.calendar].service_id = s.service_id

\* C25: every entry returned by getCalendarStatusForDate is well formed:
\* active entries have isActive true and no exceptionType other than added,
\* excluded entries have isActive false and no exceptionType other than
\* removed, exceptionType is present iff isException, and the calendar
\* back-reference is absent exactly for services of no calendar row and
\* otherwise is a row of the entry's service_id.
C25_WellFormedStatuses ==
    Resolved =>
        /\ \A k \in 1..Len(ret.active) :
              /\ ret.active[k].isActive
              /\ ret.active[k].exceptionType \in {"undefined", "added"}
              /\ WellFormedStatus(ret.active[k])
        /\ \A k \in 1..Len(ret.excluded) :
              /\ ~ret.excluded[k].isActive
              /\ ret.excluded[k].exceptionType \in {"undefined", "removed"}
              /\ WellFormedStatus(ret.excluded[k])

\* C25 happens: one result with a regular entry, an exception-only added
\* entry and an excluded entry.
C25_Witness ==
    /\ Resolved
    /\ Len(ret.excluded) = 1
    /\ ret.excluded[1].exceptionType = "removed"
    /\ ret.excluded[1].calendar # 0
    /\ Len(ret.active) = 2
    /\ ~ret.active[1].isException
    /\ ret.active[1].calendar # 0
    /\ ret.active[2].exceptionType = "added"
    /\ ret.active[2].calendar = 0

\* The handleFileChange runs that have started and not ended.
InFlight == { n \in 1..MaxLoads : loads[n] # NoLoad }

\* C26: at most one archive load is in flight at a time, whether started
\* from the file input or by a drop, so that no load is still running for a
\* FileUpload that has handed over another load's dataset (or whose dataset
\* the user has cleared) and could call onDataLoaded after it.
C26_OneLoadInFlight ==
    /\ Cardinality(InFlight) <= 1
    /\ \A n \in InFlight : ~loads[n].stale

C27_WitnessOtherMonth ==
    /\ op = "handlePrevMonth"
    /\ selectedDate # null
    /\ currentMonth = Boxed(0 - 1)
    /\ \A k \in 1..Len(daysInMonth(currentMonth[1])) :
          ~isAvailable(availableDates, daysInMonth(currentMonth[1])[k])

\* C28: the quick-select list holds 14 dates at most, in ascending order,
\* and on each of them at least one service of the loaded dataset is active.
C28_QuickSelectWithService ==
    gtfsData # null =>
        LET dates == quickSelect(availableDates)
        IN  /\ Len(dates) <= 14
            /\ \A m, n \in 1..Len(dates) : m < n => dates[m] < dates[n]
            /\ \A k \in 1..Len(dates) : getActiveServiceIds(gtfsData, dates[k]) # {}

====
